---- MODULE Spec2Model ----
(***************************************************************************)
(* A model of SimpleAgentScaffold: the sandbox lifecycle of                *)
(* src/src/sandbox.py, the evaluation orchestrator and fan-out controller  *)
(* of src/src/evaluate.py (run from src/main.py) and the agent loop of     *)
(* src/src/agent.py.                                                       *)
(*                                                                         *)
(* Spec      : evaluate_agent_multiple_tasks over NumTasks tasks. Each     *)
(*             evaluation is a coroutine; a step is the code that runs     *)
(*             when one of its awaits completes.                           *)
(* SpecFair  : Spec under a fair event loop.                               *)
(* SpecAgent : one Agent.run, with its conversation.                       *)
(* SpecBash  : one BashTool._call: run_command and the truncation.         *)
(* SpecCall  : one Tool.call, over tool signatures and payloads.           *)
(***************************************************************************)
EXTENDS Integers, Sequences, FiniteSets, TLC

\* ------------------------------------------------------------- bounds
NumTasks == 2       \* tasks submitted to evaluate_agent_multiple_tasks
MaxForeign == 1     \* containers that exist before the run starts
MaxTurns == 3       \* largest max_turns given to an Agent
MaxCalls == 2       \* most tool calls in one response
MaxText == 3        \* longest stdout or stderr of a command
MaxOutputLength == 2  \* largest max_output_length given to a BashTool

VARIABLES
    \* evaluate_agent_multiple_tasks (src/src/evaluate.py)
    tasks,                \* the list of Task records submitted
    max_run_in_parallel,  \* the cap given to asyncio.Semaphore
    semaphore,            \* the semaphore's value
    pc,                   \* the await each evaluate_one coroutine is suspended at
    exc,                  \* the exception in flight in each coroutine
    public_tests_passed,
    private_tests_passed,
    completed,            \* (index, result) pairs in completion order
    ctl,                  \* the controller: gathering, returned, raised
    ret,                  \* the dict returned by the controller
    \* src/src/sandbox.py
    lock,                 \* _container_creation_lock: 0 or its holder
    container_name,       \* DockerSandbox.container_name of each evaluation
    containers,           \* the names `docker ps -a` lists
    opened,               \* the evaluations whose __aenter__ has returned
    cleanups,             \* how many times __aexit__ has called cleanup
    \* Agent.run (src/src/agent.py)
    max_turns,
    system_message,       \* TRUE when Agent.system_message is not None
    conversation,
    apc,                  \* built, request, tools, returned, raised
    requests,             \* model-service requests made so far
    tool_calls,           \* response.tool_calls of the turn being processed
    next_call,            \* position of the for loop over tool_calls
    finished,
    \* BashTool._call and DockerSandbox.run_command
    max_output_length,
    bpc,                  \* spawn, communicate, kill, wait, truncate, returned, raised
    proc,                 \* the docker exec process: none, running, killed, reaped
    timed_out,            \* wait_for has raised TimeoutError
    completed_process,    \* what run_command returned
    bash_returned,        \* what BashTool._call returned
    \* Tool.call
    required_arguments,   \* parameters of _call without a default
    optional_arguments,   \* parameters of _call with a default
    json_arguments,
    cpc,                  \* call, returned, raised
    invoked,              \* the keyword arguments of each invocation of _call
    action_result,        \* what _call returned
    call_returned         \* what call returned

evalVars == <<tasks, max_run_in_parallel, semaphore, pc, exc,
              public_tests_passed, private_tests_passed, completed, ctl, ret,
              lock, container_name, containers, opened, cleanups>>
agentVars == <<max_turns, system_message, conversation, apc, requests,
               tool_calls, next_call, finished>>
bashVars == <<max_output_length, bpc, proc, timed_out, completed_process,
              bash_returned>>
callVars == <<required_arguments, optional_arguments, json_arguments, cpc,
              invoked, action_result, call_returned>>
vars == <<evalVars, agentVars, bashVars, callVars>>

Evals == 1..NumTasks

Range(s) == {s[i] : i \in DOMAIN s}

None == "None"

\* ------------------------------------------------ Task, EvaluationResult
Task == [category : {"c1", "c2"}, description : {"d1"},
         public_tests : {"pub"}, private_tests : {"priv"}]

EvaluationResult(public_passed, private_passed) ==
    [public_tests_passed |-> public_passed, private_tests_passed |-> private_passed]

\* ------------------------------------------------------------ sandbox.py
ContainerName(i) == "bash-sandbox-instance-" \o ToString(i)

ForeignContainers == {ContainerName(i) : i \in 0..(MaxForeign - 1)}

\* for i in count(): the first i whose name is not listed
FirstFreeIndex(existing_containers) ==
    CHOOSE i \in 0..Cardinality(existing_containers) :
        /\ ContainerName(i) \notin existing_containers
        /\ \A j \in 0..(i - 1) : ContainerName(j) \in existing_containers

make_unique_container_name_Mutant(existing_containers) == ContainerName(0)

make_unique_container_name(existing_containers) ==
    ContainerName(FirstFreeIndex(existing_containers))

LockFree_Mutant(l) == TRUE

\* asyncio.Lock.acquire proceeds only when the lock is not held
LockFree(l) == l = 0

SemaphoreAvailable_Mutant(value) == TRUE

\* asyncio.Semaphore.acquire proceeds only when the value is positive
SemaphoreAvailable(value) == value > 0

\* ----------------------------------------------------------- evaluate.py
Provisioning == {"list", "build", "start"}
Running == {"agent", "public_tests", "private_tests"}
\* inside `async with semaphore`
InScope == {"lock", "cleanup"} \cup Provisioning \cup Running

gather_Mutant(done) == [k \in 1..Len(done) |-> done[k].result]

\* tqdm.gather: the results sorted by the index of their awaitable
gather(done) ==
    [k \in 1..Len(done) |-> (CHOOSE d \in Range(done) : d.i = k).result]

\* dict(zip(tasks, results)): a later pair overwrites an equal key
DictZip(ts, results) ==
    [t \in Range(ts) |->
        results[CHOOSE i \in DOMAIN ts :
                    ts[i] = t /\ \A j \in DOMAIN ts : j > i => ts[j] # t]]

\* print_evaluation_results: one row per category, four counts per row
BucketCount(evaluation_results, task_category, private_passed, public_passed) ==
    Cardinality({task \in DOMAIN evaluation_results :
                    /\ task.category = task_category
                    /\ evaluation_results[task].private_tests_passed = private_passed
                    /\ evaluation_results[task].public_tests_passed = public_passed})

Buckets == <<<<FALSE, FALSE>>, <<FALSE, TRUE>>, <<TRUE, FALSE>>, <<TRUE, TRUE>>>>

print_evaluation_results(evaluation_results) ==
    [task_category \in {task.category : task \in DOMAIN evaluation_results} |->
        [b \in 1..4 |-> BucketCount(evaluation_results, task_category,
                                    Buckets[b][1], Buckets[b][2])]]

\* asyncio.run (main.py) cancels every task still pending when its main
\* coroutine raises: CancelledError is thrown in at the await each is
\* suspended at. Inside `async with DockerSandbox()` __aexit__ then runs
\* cleanup; elsewhere the coroutine ends.
CancelledPc(p) == IF p \in Running THEN "cleanup" ELSE "done"

ReleasedByCancel(p) == p \in ({"lock", "cleanup"} \cup Provisioning)

\* The evaluation e ends with an exception: gather re-raises it out of
\* evaluate_agent_multiple_tasks and the pending evaluations are cancelled.
\* left: the containers after e's last step; created: whether a docker run
\* that was in flight in a cancelled evaluation still created its container.
ControllerRaises(e, left, created) ==
    /\ ctl' = "raised"
    /\ pc' = [f \in Evals |-> IF f = e THEN "done" ELSE CancelledPc(pc[f])]
    /\ exc' = [f \in Evals |->
                 IF f = e THEN "fault"
                 ELSE IF pc[f] = "done" THEN exc[f] ELSE "cancelled"]
    /\ semaphore' = semaphore + 1
                    + Cardinality({f \in Evals \ {e} : ReleasedByCancel(pc[f])})
    /\ lock' = 0
    /\ containers' =
           left \cup {container_name[f] :
                        f \in {g \in Evals \ {e} : pc[g] = "start" /\ created}}
    /\ UNCHANGED <<completed, ret>>

RaisedPc_Mutant(p) == "done"

\* an exception raised at p: inside the body of
\* `async with DockerSandbox() as sandbox` __aexit__ calls cleanup; raised
\* out of __aenter__ it ends the coroutine, __aexit__ is not called
RaisedPc(p) == IF p \in Running THEN "cleanup" ELSE "done"

\* __aexit__: await self.cleanup(), counted when an evaluation enters it
EnterCleanup ==
    cleanups' = [f \in Evals |->
                    IF pc'[f] = "cleanup" /\ pc[f] # "cleanup"
                    THEN cleanups[f] + 1 ELSE cleanups[f]]

CleanupRaises_Mutant(removed) == ~removed

\* cleanup awaits proc.communicate() of docker stop and docker rm and does
\* not read their returncode
CleanupRaises(removed) == FALSE

InitEval ==
    /\ tasks \in [Evals -> Task]
    /\ max_run_in_parallel \in Evals
    /\ semaphore = max_run_in_parallel
    /\ pc = [e \in Evals |-> "sem"]
    /\ exc = [e \in Evals |-> "none"]
    /\ public_tests_passed = [e \in Evals |-> FALSE]
    /\ private_tests_passed = [e \in Evals |-> FALSE]
    /\ completed = <<>>
    /\ ctl = "gathering"
    /\ ret = <<>>
    /\ lock = 0
    /\ container_name = [e \in Evals |-> ""]
    /\ containers \in SUBSET ForeignContainers
    /\ opened = {}
    /\ cleanups = [e \in Evals |-> 0]

\* evaluate_one: async with semaphore
AcquireSemaphore(e) ==
    /\ pc[e] = "sem"
    /\ SemaphoreAvailable(semaphore)
    /\ semaphore' = semaphore - 1
    /\ pc' = [pc EXCEPT ![e] = "lock"]
    /\ UNCHANGED <<agentVars, bashVars, callVars, tasks, max_run_in_parallel,
                   opened, exc,
                   public_tests_passed, private_tests_passed, completed, ctl,
                   ret, lock, container_name, containers>>
    /\ EnterCleanup

\* __aenter__: async with _container_creation_lock; docker ps is spawned
AcquireLock(e) ==
    /\ pc[e] = "lock"
    /\ LockFree(lock)
    /\ lock' = e
    /\ pc' = [pc EXCEPT ![e] = "list"]
    /\ UNCHANGED <<agentVars, bashVars, callVars, tasks, max_run_in_parallel,
                   opened, semaphore, exc,
                   public_tests_passed, private_tests_passed, completed, ctl,
                   ret, container_name, containers>>
    /\ EnterCleanup

\* make_unique_container_name returns; docker build is spawned
ListContainers(e) ==
    /\ pc[e] = "list"
    /\ \/ /\ container_name' =
                [container_name EXCEPT ![e] = make_unique_container_name(containers)]
          /\ pc' = [pc EXCEPT ![e] = "build"]
          /\ UNCHANGED <<semaphore, exc, completed, ctl, ret, lock, containers>>
       \/ \* returncode != 0: raise Exception("Error getting existing containers")
          /\ ControllerRaises(e, containers, FALSE)
          /\ UNCHANGED container_name
    /\ UNCHANGED <<agentVars, bashVars, callVars, tasks, max_run_in_parallel,
                   opened, public_tests_passed,
                   private_tests_passed>>
    /\ EnterCleanup

\* build_image returns; docker run is spawned
BuildImage(e) ==
    /\ pc[e] = "build"
    /\ \/ /\ pc' = [pc EXCEPT ![e] = "start"]
          /\ UNCHANGED <<semaphore, exc, completed, ctl, ret, lock, containers>>
       \/ \* FileNotFoundError, or returncode != 0: "Error building image"
          ControllerRaises(e, containers, FALSE)
    /\ UNCHANGED <<agentVars, bashVars, callVars, tasks, max_run_in_parallel,
                   opened, public_tests_passed,
                   private_tests_passed, container_name>>
    /\ EnterCleanup

\* start_container returns, the lock is released and Agent.run sends its
\* first request. docker run --name fails when the name is taken.
StartContainer(e) ==
    /\ pc[e] = "start"
    /\ \/ /\ container_name[e] \notin containers
          /\ containers' = containers \cup {container_name[e]}
          /\ lock' = 0
          /\ pc' = [pc EXCEPT ![e] = "agent"]
          /\ opened' = opened \cup {e}
          /\ UNCHANGED <<semaphore, exc, completed, ctl, ret>>
       \/ \* returncode != 0: raise Exception("Error starting container")
          /\ ControllerRaises(e, containers, FALSE)
          /\ UNCHANGED opened
    /\ UNCHANGED <<agentVars, bashVars, callVars, tasks, max_run_in_parallel,
                   public_tests_passed,
                   private_tests_passed, container_name>>
    /\ EnterCleanup

\* One turn of Agent.run inside evaluate_agent. The turn is a text reply or
\* run_bash_command calls run in the evaluation's own container, and the loop
\* goes on; or the run returns (finish was called, or the turns are used up);
\* or the response names a tool that was not supplied and the assert raises.
EvalAgentTurn(e) ==
    /\ pc[e] = "agent"
    /\ container_name[e] \in containers
    /\ \E outcome \in {"next_turn", "return", "raise"} :
          \/ /\ outcome = "next_turn"
             /\ UNCHANGED <<pc, exc>>
          \/ /\ outcome = "return"
             /\ pc' = [pc EXCEPT ![e] = "public_tests"]
             /\ UNCHANGED exc
          \/ /\ outcome = "raise"
             /\ pc' = [pc EXCEPT ![e] = RaisedPc(pc[e])]
             /\ exc' = [exc EXCEPT ![e] = "fault"]
    /\ UNCHANGED <<agentVars, bashVars, callVars, tasks, max_run_in_parallel,
                   opened, semaphore,
                   public_tests_passed, private_tests_passed, completed, ctl,
                   ret, lock, container_name, containers>>
    /\ EnterCleanup

\* run_command("cat << EOF > public_tests.py ...") and
\* run_command("pytest public_tests.py") have returned
RunPublicTests(e) ==
    /\ pc[e] = "public_tests"
    /\ \/ /\ \E returncode \in {0, 1} :
                public_tests_passed' =
                    [public_tests_passed EXCEPT ![e] = (returncode = 0)]
          /\ pc' = [pc EXCEPT ![e] = "private_tests"]
          /\ UNCHANGED exc
       \/ \* run_command raises (OSError at the spawn, ProcessLookupError at kill)
          /\ pc' = [pc EXCEPT ![e] = RaisedPc(pc[e])]
          /\ exc' = [exc EXCEPT ![e] = "fault"]
          /\ UNCHANGED public_tests_passed
    /\ UNCHANGED <<agentVars, bashVars, callVars, tasks, max_run_in_parallel,
                   opened, semaphore,
                   private_tests_passed, completed, ctl, ret, lock,
                   container_name, containers>>
    /\ EnterCleanup

\* run_command("cat << EOF > private_tests.py ...") and
\* run_command("pytest private_tests.py") have returned; the
\* EvaluationResult is built and __aexit__ calls cleanup
RunPrivateTests(e) ==
    /\ pc[e] = "private_tests"
    /\ \/ /\ \E returncode \in {0, 1} :
                private_tests_passed' =
                    [private_tests_passed EXCEPT ![e] = (returncode = 0)]
          /\ pc' = [pc EXCEPT ![e] = "cleanup"]
          /\ UNCHANGED exc
       \/ \* run_command raises
          /\ pc' = [pc EXCEPT ![e] = RaisedPc(pc[e])]
          /\ exc' = [exc EXCEPT ![e] = "fault"]
          /\ UNCHANGED private_tests_passed
    /\ UNCHANGED <<agentVars, bashVars, callVars, tasks, max_run_in_parallel,
                   opened, semaphore,
                   public_tests_passed, completed, ctl, ret, lock,
                   container_name, containers>>
    /\ EnterCleanup

\* cleanup: docker stop and docker rm have returned (their status is not
\* read: the container may remain), __aexit__ returns, the semaphore is
\* released and the evaluate_one task ends: with its result, which gather
\* collects, or with the exception in flight.
Cleanup(e) ==
    /\ pc[e] = "cleanup"
    /\ \E removed \in BOOLEAN :
        LET left == IF removed THEN containers \ {container_name[e]} ELSE containers
            done == Append(completed,
                           [i |-> e,
                            result |-> EvaluationResult(public_tests_passed[e],
                                                        private_tests_passed[e])])
        IN  \/ /\ exc[e] = "none"
               /\ ~CleanupRaises(removed)
               /\ completed' = done
               /\ IF Len(done) = NumTasks
                  THEN /\ ctl' = "returned"
                       /\ ret' = DictZip(tasks, gather(done))
                  ELSE UNCHANGED <<ctl, ret>>
               /\ pc' = [pc EXCEPT ![e] = "done"]
               /\ semaphore' = semaphore + 1
               /\ containers' = left
               /\ UNCHANGED <<exc, lock>>
            \/ /\ exc[e] = "fault" \/ (exc[e] = "none" /\ CleanupRaises(removed))
               /\ \E created \in (IF \E g \in Evals \ {e} : pc[g] = "start"
                                   THEN BOOLEAN ELSE {FALSE}) :
                      ControllerRaises(e, left, created)
            \/ /\ exc[e] = "cancelled"
               /\ pc' = [pc EXCEPT ![e] = "done"]
               /\ semaphore' = semaphore + 1
               /\ containers' = left
               /\ UNCHANGED <<exc, completed, ctl, ret, lock>>
    /\ UNCHANGED <<agentVars, bashVars, callVars, tasks, max_run_in_parallel,
                   opened, public_tests_passed,
                   private_tests_passed, container_name>>
    /\ EnterCleanup

\* ------------------------------------------------------------- agent.py
\* tool_call.function.arguments, by what json.loads makes of the text: an
\* object with these keys, or a JSONDecodeError
Arguments == {[json |-> "object", keys |-> {"command"}],
              [json |-> "invalid", keys |-> {}]}

\* self.tools of the Agent evaluate_agent builds: [BashTool(sandbox)], and
\* the FinishTool __post_init__ appends
Tools == <<"run_bash_command", "finish">>

RequiredArguments(tool) == IF tool = "run_bash_command" THEN {"command"} ELSE {}

OptionalArguments(tool) == {}

\* BashTool._call: json.dumps of exit_code, stdout and stderr
ToolAction(tool) ==
    IF tool = "run_bash_command" THEN "{exit_code, stdout, stderr}" ELSE None

ArgumentsAccepted_Mutant(required, optional, arguments) ==
    IF arguments.json # "object" THEN FALSE
    ELSE required \subseteq arguments.keys

\* Tool.call: the checks that return None before _call is reached
ArgumentsAccepted(required, optional, arguments) ==
    IF arguments.json # "object" THEN FALSE
    ELSE IF ~(required \subseteq arguments.keys) THEN FALSE
    ELSE IF ~(arguments.keys \subseteq required \cup optional) THEN FALSE
    ELSE TRUE

\* Tool.call
ToolCall(tool, arguments) ==
    IF ArgumentsAccepted(RequiredArguments(tool), OptionalArguments(tool),
                         arguments)
    THEN ToolAction(tool)
    ELSE None

\* json.dumps of Tool.call's return value
JsonDumps(returned) ==
    IF returned = None THEN "null" ELSE "\"" \o returned \o "\""

\* next(tool for tool in self.tools if its name == tool_call.function.name, None)
ResolveTool(name) ==
    IF \E i \in DOMAIN Tools : Tools[i] = name
    THEN Tools[CHOOSE i \in DOMAIN Tools :
                 Tools[i] = name /\ \A j \in DOMAIN Tools : j < i => Tools[j] # name]
    ELSE None

\* A message of the conversation. tool_calls = <<>> stands for None (the
\* model service never sends an empty list); tool_call_id = 0 for no id.
Message(type, role, content, calls, id) ==
    [type |-> type, role |-> role, content |-> content, tool_calls |-> calls,
     tool_call_id |-> id]

UserPrompt == Message("dict", "user", "prompt", <<>>, 0)

SystemMessage == Message("dict", "system", "system_message", <<>>, 0)

AssistantContent(response) ==
    Message("dict", "assistant", response.content, <<>>, 0)

SteeringNudge ==
    Message("dict", "user",
            "You should call tools instead of giving chat responses.", <<>>, 0)

ToolResult(returned, id) == Message("dict", "tool", JsonDumps(returned), <<>>, id)

\* the ids the model service gives its tool calls are unique
CallId(request, k) == (request - 1) * MaxCalls + k

CallChoices ==
    {[name |-> "run_bash_command", arguments |-> a] : a \in Arguments}
    \cup {[name |-> "finish", arguments |-> [json |-> "object", keys |-> {}]],
          [name |-> "write_file", arguments |-> [json |-> "object", keys |-> {}]]}

\* response.choices[0].message of the request-th request: plain text, tool
\* calls, or neither
Responses(request) ==
    {Message("ChatCompletionMessage", "assistant", "text", <<>>, 0),
     Message("ChatCompletionMessage", "assistant", None, <<>>, 0)}
    \cup UNION {
        {Message("ChatCompletionMessage", "assistant", None,
                 [k \in 1..n |-> [id |-> CallId(request, k), name |-> c[k].name,
                                  arguments |-> c[k].arguments]], 0) :
            c \in [1..n -> CallChoices]} : n \in 1..MaxCalls}

\* conversation = [user prompt], and the system message when there is one
Seed(with_system_message) ==
    IF with_system_message THEN <<UserPrompt, SystemMessage>> ELSE <<UserPrompt>>

LoopNext_Mutant(made) == IF made <= max_turns THEN "request" ELSE "returned"

\* for _ in range(self.max_turns): another request, or the run returns
LoopNext(made) == IF made < max_turns THEN "request" ELSE "returned"

SteeringMessages_Mutant(response) == <<AssistantContent(response)>>

\* the two messages appended after a response without tool calls
SteeringMessages(response) == <<AssistantContent(response), SteeringNudge>>

AppendToolResult_Mutant(conv, returned, id) ==
    IF returned = None THEN conv ELSE Append(conv, ToolResult(returned, id))

\* conversation.append({"role": "tool", ...})
AppendToolResult(conv, returned, id) == Append(conv, ToolResult(returned, id))

AfterToolCalls_Mutant(fin, made) == LoopNext(made)

\* if finished: return; otherwise the next iteration of the turn loop
AfterToolCalls(fin, made) == IF fin THEN "returned" ELSE LoopNext(made)

\* an Agent has been built; run has not been called
InitAgent ==
    /\ max_turns \in 0..MaxTurns
    /\ system_message \in BOOLEAN
    /\ conversation = <<>>
    /\ apc = "built"
    /\ requests = 0
    /\ tool_calls = <<>>
    /\ next_call = 0
    /\ finished = FALSE

\* Agent.run is called: the conversation is seeded and the turn loop entered
Run ==
    /\ apc = "built"
    /\ conversation' = Seed(system_message)
    /\ apc' = LoopNext(0)
    /\ UNCHANGED <<evalVars, bashVars, callVars, max_turns, system_message,
                   requests, tool_calls,
                   next_call, finished>>

\* response = await self._chatbot_response(conversation), up to the
\* `continue` of a response without tool calls or to the for loop
ChatbotResponse ==
    /\ apc = "request"
    /\ requests' = requests + 1
    /\ \E response \in Responses(requests + 1) :
          IF response.tool_calls = <<>>
          THEN IF response.content = None
               THEN \* assert response.content is not None
                    /\ conversation' = Append(conversation, response)
                    /\ apc' = "raised"
                    /\ UNCHANGED <<tool_calls, next_call, finished>>
               ELSE /\ conversation' =
                          Append(conversation, response) \o SteeringMessages(response)
                    /\ apc' = LoopNext(requests + 1)
                    /\ UNCHANGED <<tool_calls, next_call, finished>>
          ELSE /\ conversation' = Append(conversation, response)
               /\ tool_calls' = response.tool_calls
               /\ next_call' = 1
               /\ finished' = FALSE
               /\ apc' = "tools"
    /\ UNCHANGED <<evalVars, bashVars, callVars, max_turns, system_message>>

\* one iteration of `for tool_call in response.tool_calls`, and what follows
\* the loop when it is the last one or breaks
ProcessToolCall ==
    /\ apc = "tools"
    /\ LET tool_call == tool_calls[next_call]
           tool == ResolveTool(tool_call.name)
       IN  IF tool = None
           THEN \* assert tool is not None
                /\ apc' = "raised"
                /\ UNCHANGED <<conversation, next_call, finished>>
           ELSE IF tool = "finish"
           THEN \* finished = True; break
                /\ finished' = TRUE
                /\ apc' = AfterToolCalls(TRUE, requests)
                /\ UNCHANGED <<conversation, next_call>>
           ELSE /\ conversation' =
                      AppendToolResult(conversation,
                                       ToolCall(tool, tool_call.arguments),
                                       tool_call.id)
                /\ next_call' = next_call + 1
                /\ apc' = IF next_call = Len(tool_calls)
                          THEN AfterToolCalls(finished, requests)
                          ELSE "tools"
                /\ UNCHANGED finished
    /\ UNCHANGED <<evalVars, bashVars, callVars, max_turns, system_message,
                   requests, tool_calls>>

\* ------------------------------------- BashTool._call and run_command
\* a text is the sequence of its characters
Alphabet == {"a", "b"}

Texts == UNION {[1..n -> Alphabet] : n \in 0..MaxText}

TruncatedMarker == <<"[", "T", "R", "U", "N", "C", "A", "T", "E", "D", "]">>

TimedOutText == <<"T", "i", "m", "e", "d", " ", "o", "u", "t", ".">>

CompletedProcess(returncode, stdout, stderr) ==
    [returncode |-> returncode, stdout |-> stdout, stderr |-> stderr]

\* text[start:stop] for 0 <= start, stop
Slice(text, start, stop) ==
    LET hi == IF stop < Len(text) THEN stop ELSE Len(text)
    IN  IF start >= hi THEN <<>> ELSE SubSeq(text, start + 1, hi)

\* a slice index as Python reads it: a negative one counts from the end
SliceIndex(text, i) ==
    IF i >= 0 THEN i
    ELSE IF Len(text) + i < 0 THEN 0 ELSE Len(text) + i

\* text[:stop]
SliceTo(text, stop) == Slice(text, 0, SliceIndex(text, stop))

\* text[start:]
SliceFrom(text, start) == Slice(text, SliceIndex(text, start), Len(text))

\* BashTool._truncate; -bound // 2 is (-bound) // 2
_truncate(text, bound) ==
    IF Len(text) <= bound THEN text
    ELSE SliceTo(text, bound \div 2) \o TruncatedMarker
         \o SliceFrom(text, (0 - bound) \div 2)

\* a BashTool has been built over a running sandbox and _call is entered
InitBash ==
    /\ max_output_length \in 0..MaxOutputLength
    /\ bpc = "spawn"
    /\ proc = "none"
    /\ timed_out = FALSE
    /\ completed_process = None
    /\ bash_returned = None

\* proc = await asyncio.create_subprocess_exec("docker", "exec", ...)
Spawn ==
    /\ bpc = "spawn"
    /\ \/ /\ proc' = "running"
          /\ bpc' = "communicate"
       \/ \* the docker client cannot be executed: OSError
          /\ bpc' = "raised"
          /\ UNCHANGED proc
    /\ UNCHANGED <<evalVars, agentVars, callVars, max_output_length, timed_out,
                   completed_process, bash_returned>>

\* wait_for(proc.communicate(), timeout_seconds) returns in time: the
\* process has exited and asyncio has collected it
CommunicateReturns ==
    /\ bpc = "communicate"
    /\ proc = "running"
    /\ \E returncode \in {0, 1}, stdout \in Texts, stderr \in Texts :
          completed_process' = CompletedProcess(returncode, stdout, stderr)
    /\ proc' = "reaped"
    /\ bpc' = "truncate"
    /\ UNCHANGED <<evalVars, agentVars, callVars, max_output_length, timed_out,
                   bash_returned>>

\* the timeout elapses: wait_for cancels communicate, waits for the
\* cancellation and raises TimeoutError
TimeoutExpires ==
    /\ bpc = "communicate"
    /\ proc = "running"
    /\ timed_out' = TRUE
    /\ bpc' = "kill"
    /\ UNCHANGED <<evalVars, agentVars, callVars, max_output_length, proc,
                   completed_process, bash_returned>>

\* the process ends by itself while the cancellation is delivered: the event
\* loop collects it and closes its transport
ProcessExits ==
    /\ bpc = "kill"
    /\ proc = "running"
    /\ proc' = "reaped"
    /\ UNCHANGED <<evalVars, agentVars, callVars, max_output_length, bpc,
                   timed_out,
                   completed_process, bash_returned>>

\* whether proc.kill() raises ProcessLookupError
KillRaises(p) == p = "reaped"

\* except asyncio.TimeoutError: proc.kill()
Kill ==
    /\ bpc = "kill"
    /\ IF KillRaises(proc)
       THEN bpc' = "raised" /\ UNCHANGED proc
       ELSE bpc' = "wait" /\ proc' = "killed"
    /\ UNCHANGED <<evalVars, agentVars, callVars, max_output_length, timed_out,
                   completed_process, bash_returned>>

\* await proc.wait(); return CompletedProcess(1, "", "Timed out.")
Wait ==
    /\ bpc = "wait"
    /\ proc' = "reaped"
    /\ completed_process' = CompletedProcess(1, <<>>, TimedOutText)
    /\ bpc' = "truncate"
    /\ UNCHANGED <<evalVars, agentVars, callVars, max_output_length, timed_out,
                   bash_returned>>

\* BashTool._call: json.dumps of exit_code and the truncated streams
BashCallReturns ==
    /\ bpc = "truncate"
    /\ bash_returned' =
          [exit_code |-> completed_process.returncode,
           stdout |-> _truncate(completed_process.stdout, max_output_length),
           stderr |-> _truncate(completed_process.stderr, max_output_length)]
    /\ bpc' = "returned"
    /\ UNCHANGED <<evalVars, agentVars, callVars, max_output_length, proc,
                   timed_out,
                   completed_process>>

\* ----------------------------------------------------------- Tool.call
ParameterNames == {"command", "cwd", "env"}

ArgumentValues == {"x", "y"}

\* json_arguments by what json.loads makes of it: an object (its keys and
\* values), another JSON value, or a JSONDecodeError
Payloads ==
    {[json |-> "object", keys |-> DOMAIN v, values |-> v] :
        v \in UNION {[K -> ArgumentValues] : K \in SUBSET ParameterNames}}
    \cup {[json |-> "array", keys |-> {}, values |-> <<>>],
          [json |-> "invalid", keys |-> {}, values |-> <<>>]}

\* a tool whose _call has these parameters is called with a payload
InitCall ==
    /\ required_arguments \in SUBSET ParameterNames
    /\ optional_arguments \in SUBSET (ParameterNames \ required_arguments)
    /\ json_arguments \in Payloads
    /\ cpc = "call"
    /\ invoked = <<>>
    /\ action_result = None
    /\ call_returned = None

CallIdle ==
    /\ required_arguments = {}
    /\ optional_arguments = {}
    /\ json_arguments = None
    /\ cpc = "idle"
    /\ invoked = <<>>
    /\ action_result = None
    /\ call_returned = None

\* await tool.call(json_arguments); _call returns a text or None, or raises
Call ==
    /\ cpc = "call"
    /\ IF ArgumentsAccepted(required_arguments, optional_arguments, json_arguments)
       THEN /\ invoked' = Append(invoked, json_arguments.values)
            /\ \E result \in {"text", None, "raises"} :
                  /\ action_result' = result
                  /\ IF result = "raises"
                     THEN cpc' = "raised" /\ UNCHANGED call_returned
                     ELSE cpc' = "returned" /\ call_returned' = result
       ELSE /\ call_returned' = None
            /\ cpc' = "returned"
            /\ UNCHANGED <<invoked, action_result>>
    /\ UNCHANGED <<evalVars, agentVars, bashVars, required_arguments,
                   optional_arguments, json_arguments>>

\* ------------------------------------------------------ specifications
AgentIdle ==
    /\ max_turns = 0
    /\ system_message = TRUE
    /\ conversation = <<>>
    /\ apc = "idle"
    /\ requests = 0
    /\ tool_calls = <<>>
    /\ next_call = 0
    /\ finished = FALSE

EvalIdle ==
    /\ tasks = <<>>
    /\ max_run_in_parallel = 1
    /\ semaphore = 1
    /\ pc = [e \in Evals |-> "done"]
    /\ exc = [e \in Evals |-> "none"]
    /\ public_tests_passed = [e \in Evals |-> FALSE]
    /\ private_tests_passed = [e \in Evals |-> FALSE]
    /\ completed = <<>>
    /\ ctl = "idle"
    /\ ret = <<>>
    /\ lock = 0
    /\ container_name = [e \in Evals |-> ""]
    /\ containers = {}
    /\ opened = {}
    /\ cleanups = [e \in Evals |-> 0]

BashIdle ==
    /\ max_output_length = 0
    /\ bpc = "idle"
    /\ proc = "none"
    /\ timed_out = FALSE
    /\ completed_process = None
    /\ bash_returned = None

Init == InitEval /\ AgentIdle /\ BashIdle /\ CallIdle

Next ==
    \E e \in Evals :
          \/ AcquireSemaphore(e)
          \/ AcquireLock(e)
          \/ ListContainers(e)
          \/ BuildImage(e)
          \/ StartContainer(e)
          \/ EvalAgentTurn(e)
          \/ RunPublicTests(e)
          \/ RunPrivateTests(e)
          \/ Cleanup(e)

Spec == Init /\ [][Next]_vars

\* the event loop runs every coroutine whose await has completed, and
\* every subprocess and model-service request completes
SpecFair == Spec /\ WF_vars(Next)

InitAgentRun == EvalIdle /\ InitAgent /\ BashIdle /\ CallIdle

NextAgent == Run \/ ChatbotResponse \/ ProcessToolCall

SpecAgent == InitAgentRun /\ [][NextAgent]_vars

InitBashRun == EvalIdle /\ AgentIdle /\ InitBash /\ CallIdle

NextBash ==
    \/ Spawn
    \/ CommunicateReturns
    \/ TimeoutExpires
    \/ ProcessExits
    \/ Kill
    \/ Wait
    \/ BashCallReturns

SpecBash == InitBashRun /\ [][NextBash]_vars

InitToolCall == EvalIdle /\ AgentIdle /\ BashIdle /\ InitCall

NextCall == Call

SpecCall == InitToolCall /\ [][NextCall]_vars

\* ------------------------------------------------------------- claims
\* a sandbox holds its name from make_unique_container_name's return until
\* cleanup has removed (or given up removing) its container
HoldsName(e) == pc[e] \in ({"build", "start", "cleanup"} \cup Running)

\* a sandbox whose container was started and whose cleanup has not returned
Live(e) == pc[e] \in ({"cleanup"} \cup Running)

\* C1: under every interleaving of concurrent open() calls with other
\* sandboxes' commands and cleanups, every reserved name is
\* bash-sandbox-instance-<i>, a name just returned by
\* make_unique_container_name is held by no live sandbox, and no two
\* sandboxes hold the same name at the same time.
C1_UniqueContainerNames ==
    /\ \A e \in Evals :
          HoldsName(e) =>
             \E i \in 0..(NumTasks + MaxForeign) : container_name[e] = ContainerName(i)
    /\ \A e, f \in Evals :
          (e # f /\ pc[e] = "build" /\ Live(f)) => container_name[e] # container_name[f]
    /\ \A e, f \in Evals :
          (e # f /\ HoldsName(e) /\ HoldsName(f)) => container_name[e] # container_name[f]

\* C1 witness: a sandbox has just reserved a name while two other names are
\* taken, one of them by a live sandbox.
C1_Witness ==
    \E e, f \in Evals :
        /\ e # f
        /\ pc[e] = "build"
        /\ Live(f)
        /\ container_name[e] = ContainerName(2)

\* C2: at most one sandbox is between the start of its name listing and the
\* end of its container start, and it is the holder of the lock.
C2_CreationSerialized ==
    /\ Cardinality({e \in Evals : pc[e] \in Provisioning}) <= 1
    /\ \A e \in Evals : pc[e] \in Provisioning => lock = e

\* C2 witness: a sandbox is suspended in docker run, holding the lock, while
\* another waits for the lock.
C2_Witness ==
    \E e, f \in Evals : pc[e] = "start" /\ pc[f] = "lock" /\ lock = e

\* C3: never more than max_run_in_parallel evaluations are inside their
\* sandbox scope (provisioning, running or tearing down).
C3_ConcurrencyCap ==
    Cardinality({e \in Evals : pc[e] \in InScope}) <= max_run_in_parallel

\* C3 witness: the cap is reached and an evaluation is kept waiting.
C3_Witness ==
    /\ Cardinality({e \in Evals : pc[e] \in InScope}) = max_run_in_parallel
    /\ \E e \in Evals : pc[e] = "sem"
    /\ \E e \in Evals : pc[e] \in Running

\* C4: a fault raised in one evaluation does not fail the controller and
\* does not cancel a sibling evaluation.
C4_FaultIsolated ==
    \A e \in Evals :
        (pc[e] = "done" /\ exc[e] = "fault") =>
            /\ ctl # "raised"
            /\ \A f \in Evals \ {e} : exc[f] # "cancelled"

RECURSIVE TableSum(_)
TableSum(table) ==
    IF DOMAIN table = {} THEN 0
    ELSE LET c == CHOOSE c \in DOMAIN table : TRUE
         IN  table[c][1] + table[c][2] + table[c][3] + table[c][4]
             + TableSum([d \in DOMAIN table \ {c} |-> table[d]])

\* C5: when every evaluation completes, one EvaluationResult is recorded per
\* submitted task and the bucket counts of print_evaluation_results sum to
\* the number of tasks submitted.
C5_CountsSumToSubmitted ==
    ctl = "returned" =>
        /\ Cardinality(DOMAIN ret) = Len(tasks)
        /\ TableSum(print_evaluation_results(ret)) = Len(tasks)

ResponsesAt ==
    {p \in DOMAIN conversation : conversation[p].type = "ChatCompletionMessage"}

ResolvesToFinish(tool_call) == ResolveTool(tool_call.name) = "finish"

HasFinish(response) ==
    \E k \in DOMAIN response.tool_calls : ResolvesToFinish(response.tool_calls[k])

ToolResultsFor(id) ==
    {q \in DOMAIN conversation :
        conversation[q].role = "tool" /\ conversation[q].tool_call_id = id}

\* C7: when the run has stopped, every tool call that followed a finish call
\* in its turn has its tool-result message in the conversation.
C7_CallsAfterFinishProcessed ==
    apc = "returned" =>
        \A p \in ResponsesAt :
            LET calls == conversation[p].tool_calls
            IN  \A k, j \in DOMAIN calls :
                    (ResolvesToFinish(calls[k]) /\ j > k) =>
                        ToolResultsFor(calls[j].id) # {}

\* C8: when a request is made, every tool call of every earlier response
\* has exactly one tool message with its id, and the tool messages of a turn
\* follow its response in the order of the calls.
C8_OneResultPerCall ==
    apc = "request" =>
        \A p \in ResponsesAt :
            LET calls == conversation[p].tool_calls
            IN  \A k \in DOMAIN calls :
                    /\ p + k <= Len(conversation)
                    /\ conversation[p + k].role = "tool"
                    /\ conversation[p + k].tool_call_id = calls[k].id
                    /\ Cardinality(ToolResultsFor(calls[k].id)) = 1

\* C8 witness: a request is about to be made after a turn of two tool calls,
\* one of them with arguments that do not parse.
C8_Witness ==
    /\ apc = "request"
    /\ \E p \in ResponsesAt :
          /\ Len(conversation[p].tool_calls) = 2
          /\ \E k \in 1..2 : conversation[p].tool_calls[k].arguments.json = "invalid"

AllPlainText ==
    \A p \in ResponsesAt :
        conversation[p].tool_calls = <<>> /\ conversation[p].content # None

\* C9 as stated: a run of plain-text replies returns after max_turns
\* requests without a finish, with 1 + 3 * max_turns messages.
C9_LengthOnePlusThreeTurns ==
    (apc = "returned" /\ AllPlainText) =>
        /\ requests = max_turns
        /\ ~finished
        /\ Len(conversation) = 1 + 3 * max_turns

\* C9 amended: a run of plain-text replies never raises and never observes
\* a finish; it returns after max_turns requests with s + 3 * max_turns
\* messages, s = 2 with a system message (the default) and 1 without.
C9_PlainTextRun ==
    AllPlainText =>
        /\ apc # "raised"
        /\ ~finished
        /\ apc = "returned" =>
              /\ requests = max_turns
              /\ Len(conversation) = (IF system_message THEN 2 ELSE 1) + 3 * max_turns

\* C9 witness: a run of at least two plain-text turns has returned.
C9_Witness ==
    /\ apc = "returned"
    /\ AllPlainText
    /\ max_turns >= 2
    /\ requests = max_turns

\* C10: once a response holds a call to finish no request follows it (the
\* run is processing that turn or is over), and every tool call of the
\* earlier turns has exactly one tool message.
C10_NoRequestAfterFinish ==
    /\ requests = Cardinality(ResponsesAt)
    /\ \A p \in ResponsesAt :
          HasFinish(conversation[p]) =>
             /\ apc \in {"tools", "returned", "raised"}
             /\ \A q \in ResponsesAt : q <= p
             /\ \A q \in ResponsesAt :
                   q < p =>
                      \A k \in DOMAIN conversation[q].tool_calls :
                          Cardinality(ToolResultsFor(
                              conversation[q].tool_calls[k].id)) = 1

\* C10 witness: run_bash_command in turn 1, finish in turn 2, a third turn
\* allowed: the run has returned after two requests with one tool message.
C10_Witness ==
    /\ max_turns = 3
    /\ requests = 2
    /\ apc = "returned"
    /\ finished
    /\ \E p, q \in ResponsesAt :
          /\ p < q
          /\ Len(conversation[p].tool_calls) = 1
          /\ conversation[p].tool_calls[1].name = "run_bash_command"
          /\ Cardinality(ToolResultsFor(conversation[p].tool_calls[1].id)) = 1
          /\ Len(conversation[q].tool_calls) = 1
          /\ conversation[q].tool_calls[1].name = "finish"
    /\ Cardinality({q \in DOMAIN conversation : conversation[q].role = "tool"}) = 1

\* every response so far is plain text, or tool calls naming supplied tools
WellFormedRun ==
    \A p \in ResponsesAt :
        LET response == conversation[p]
        IN  IF response.tool_calls = <<>> THEN response.content # None
            ELSE \A k \in DOMAIN response.tool_calls :
                    ResolveTool(response.tool_calls[k].name) # None

\* an upper bound on the steps Agent.run has left: the turns not yet
\* requested, each with its tool calls, and the tool calls of this turn
StepsLeft ==
    IF apc = "built" THEN (max_turns + 1) * (MaxCalls + 2) + 1
    ELSE IF apc = "request" THEN (max_turns - requests) * (MaxCalls + 2) + 1
    ELSE IF apc = "tools"
         THEN (max_turns - requests) * (MaxCalls + 2) + 2
              + Len(tool_calls) - next_call
    ELSE 0

C12_TimeoutYieldsSyntheticResult ==
    timed_out =>
        /\ bpc # "raised"
        /\ bpc \in {"truncate", "returned"} =>
              /\ completed_process = CompletedProcess(1, <<>>, TimedOutText)
              /\ proc = "reaped"

\* C13: Tool.call invokes _call exactly when the payload is an object whose
\* keys hold every required parameter and only required or optional ones;
\* then _call is invoked once, with the payload's values, and what it
\* returns is returned. For every other payload call returns None and _call
\* is not invoked.
C13_CallIffAccepted ==
    cpc # "call" =>
        LET K == json_arguments.keys
        IN  IF /\ json_arguments.json = "object"
               /\ required_arguments \subseteq K
               /\ K \subseteq (required_arguments \cup optional_arguments)
            THEN /\ invoked = <<json_arguments.values>>
                 /\ cpc = "returned" => call_returned = action_result
                 /\ cpc = "raised" => action_result = "raises"
            ELSE /\ invoked = <<>>
                 /\ cpc = "returned"
                 /\ call_returned = None

\* C13 witness: a call with the required parameter and one of two optional
\* ones has returned the text its action returned.
C13_Witness ==
    /\ cpc = "returned"
    /\ required_arguments = {"command"}
    /\ optional_arguments = {"cwd", "env"}
    /\ json_arguments.keys = {"command", "cwd"}
    /\ Len(invoked) = 1
    /\ call_returned = "text"

\* C14: truncating an already truncated stream again, with the same bound,
\* gives the same text.
C14_TruncateIdempotent ==
    bpc = "returned" =>
        /\ _truncate(bash_returned.stdout, max_output_length) = bash_returned.stdout
        /\ _truncate(bash_returned.stderr, max_output_length) = bash_returned.stderr

\* C19: a truncated stream is at most max_output_length plus the length of
\* the marker long, and a stream no longer than the bound is returned
\* unchanged.
C19_TruncatedLengthBounded ==
    bpc = "returned" =>
        /\ Len(bash_returned.stdout) <= max_output_length + Len(TruncatedMarker)
        /\ Len(bash_returned.stderr) <= max_output_length + Len(TruncatedMarker)
        /\ Len(completed_process.stdout) <= max_output_length =>
              bash_returned.stdout = completed_process.stdout
        /\ Len(completed_process.stderr) <= max_output_length =>
              bash_returned.stderr = completed_process.stderr

\* C15: a sandbox whose open() succeeded has its cleanup invoked exactly
\* once, whether evaluate_agent returns its result or a fault is raised by
\* the agent run or by the tests: never before the block is left, once when
\* it has been left.
C15_CleanupExactlyOnce ==
    \A e \in Evals :
        /\ cleanups[e] <= 1
        /\ pc[e] \in Running => (e \in opened /\ cleanups[e] = 0)
        /\ pc[e] = "cleanup" => (e \in opened /\ cleanups[e] = 1)
        /\ (pc[e] = "done" /\ e \in opened) => cleanups[e] = 1

\* C15 witness: one evaluation has returned its result and another has
\* ended with a fault raised inside the block, each with one cleanup.
C15_Witness ==
    \E e, f \in Evals :
        /\ pc[e] = "done" /\ e \in opened /\ exc[e] = "none" /\ cleanups[e] = 1
        /\ pc[f] = "done" /\ f \in opened /\ exc[f] = "fault" /\ cleanups[f] = 1

\* C16: a sandbox whose open() failed after its name was reserved (in the
\* image build or the container start) has had its cleanup invoked.
C16_CleanupAfterFailedOpen ==
    \A e \in Evals :
        (pc[e] = "done" /\ exc[e] = "fault" /\ e \notin opened
            /\ container_name[e] # "") => cleanups[e] >= 1

\* C17: however the agent run ends (finish, turns used up, or a fault) the
\* public tests come next, then the private tests, then the close of the
\* sandbox; a result is delivered only by an evaluation that ran both.
C17_TestsAfterEveryAgentRun ==
    [][\A e \in Evals :
          /\ (pc[e] = "agent" /\ pc'[e] # "agent" /\ exc'[e] # "cancelled")
                => pc'[e] = "public_tests"
          /\ (pc[e] # "private_tests" /\ pc'[e] = "private_tests")
                => pc[e] = "public_tests"
          /\ (Len(completed') > Len(completed) /\ completed'[Len(completed')].i = e)
                => (pc[e] = "cleanup" /\ exc[e] = "none")
          /\ (pc[e] # "cleanup" /\ pc'[e] = "cleanup" /\ exc'[e] = "none")
                => pc[e] = "private_tests"]_vars

\* C18: when cleanup returns in an evaluation that has computed its
\* EvaluationResult, the evaluation ends without an exception and delivers
\* that result, whether or not docker stop and docker rm removed the
\* container.
C18_TeardownFaultsSwallowed ==
    [][\A e \in Evals :
          (pc[e] = "cleanup" /\ exc[e] = "none" /\ pc'[e] = "done"
              /\ exc'[e] # "cancelled")
          => /\ exc'[e] = "none"
             /\ completed' =
                   Append(completed,
                          [i |-> e,
                           result |-> EvaluationResult(public_tests_passed[e],
                                                       private_tests_passed[e])])]_vars

\* C18 witness: an evaluation has delivered its result although its
\* container was not removed.
C18_Witness ==
    \E e \in Evals :
        /\ pc[e] = "done"
        /\ exc[e] = "none"
        /\ container_name[e] \in containers
        /\ \E k \in DOMAIN completed : completed[k].i = e

====
